---- MODULE Spec2Model ----
(***************************************************************************)
(* Model of main.py: the LinkedIn profile resolver that searches           *)
(* DuckDuckGo for every speaker of a roster, extracts the first profile    *)
(* link of the result page and appends it to a CSV file.                   *)
(*                                                                         *)
(* Python strings are sequences of one-character strings, so that          *)
(* formatting, stripping, slicing and the regular expressions are computed *)
(* as the code computes them.                                              *)
(***************************************************************************)
EXTENDS Integers, Sequences, FiniteSets, TLC

(* ------------------------------------------------------------------ *)
(* Bounds of the model                                                 *)
(* ------------------------------------------------------------------ *)
\* length of the long name / title / company values of the rosters
LongLen == 180
\* length of the medium company value (long title + medium company: the
\* name+company reconstruction fits, the full query does not)
MidLen == 60

(* ------------------------------------------------------------------ *)
(* String helpers                                                      *)
(* ------------------------------------------------------------------ *)
\* Python's None (restval of csv.DictReader, missing href, no profile)
None == <<"<None>">>

Rep(c, n) == [j \in 1..n |-> c]

Whitespace == {" ", "\t", "\n"}

\* s[p:] starts with lit (1-based p)
StartsWithAt(s, p, lit) ==
    /\ p >= 1
    /\ p + Len(lit) - 1 <= Len(s)
    /\ \A j \in 1..Len(lit) : s[p + j - 1] = lit[j]

\* `lit in s`
Contains(s, lit) == \E p \in 1..Len(s) : StartsWithAt(s, p, lit)

\* last index of the longest run of characters outside Stop that starts
\* at p (p - 1 when the run is empty): a greedy negated character class
RECURSIVE RunEnd(_, _, _)
RunEnd(s, p, Stop) ==
    IF p > Len(s) \/ s[p] \in Stop THEN p - 1 ELSE RunEnd(s, p + 1, Stop)

\* str.strip()
Strip(s) ==
    IF \A j \in 1..Len(s) : s[j] \in Whitespace
    THEN <<>>
    ELSE LET a == CHOOSE j \in 1..Len(s) :
                     s[j] \notin Whitespace /\ \A r \in 1..(j - 1) : s[r] \in Whitespace
             b == CHOOSE j \in 1..Len(s) :
                     s[j] \notin Whitespace /\ \A r \in (j + 1)..Len(s) : s[r] \in Whitespace
         IN SubSeq(s, a, b)

\* str.lower() on the letters that occur in the strategy descriptions
LowerChar(c) ==
    CASE c = "N" -> "n"
      [] c = "T" -> "t"
      [] c = "C" -> "c"
      [] OTHER -> c

Lower(s) == [j \in 1..Len(s) |-> LowerChar(s[j])]

(* ------------------------------------------------------------------ *)
(* clean_linkedin_url                                                  *)
(* ------------------------------------------------------------------ *)
HttpsLit == <<"h","t","t","p","s",":","/","/">>
HttpLit == <<"h","t","t","p",":","/","/">>
InLit == <<"/","i","n","/">>

\* index after the match of https?:// at p, 0 when it does not match
SchemeEnd(s, p) ==
    IF StartsWithAt(s, p, HttpsLit) THEN p + 8
    ELSE IF StartsWithAt(s, p, HttpLit) THEN p + 7
    ELSE 0

\* last index of the match of (https?://[^/]+/in/[^/?#]+) that starts at
\* p, 0 when the pattern does not match at p
ProfileMatchEnd(s, p) ==
    LET a == SchemeEnd(s, p) IN
    IF a = 0 THEN 0
    ELSE LET h == RunEnd(s, a, {"/"}) IN
         IF h < a \/ ~StartsWithAt(s, h + 1, InLit) THEN 0
         ELSE LET e == RunEnd(s, h + 5, {"/", "?", "#"}) IN
              IF e < h + 5 THEN 0 ELSE e

\* re.search: the first position from p on at which the pattern matches,
\* 0 when there is none
RECURSIVE ProfileSearch(_, _)
ProfileSearch(s, p) ==
    IF p > Len(s) THEN 0
    ELSE IF ProfileMatchEnd(s, p) > 0 THEN p
    ELSE ProfileSearch(s, p + 1)

\* mutant: the last character of the match is cut off, as a trailing
\* slash would be
CleanCutsLast(url) ==
    IF ProfileSearch(url, 1) > 0
    THEN SubSeq(url, ProfileSearch(url, 1), ProfileMatchEnd(url, ProfileSearch(url, 1)) - 1)
    ELSE url

clean_linkedin_url(url) ==
    IF ProfileSearch(url, 1) > 0
    THEN SubSeq(url, ProfileSearch(url, 1), ProfileMatchEnd(url, ProfileSearch(url, 1)))
    ELSE url

(* ------------------------------------------------------------------ *)
(* Result pages                                                        *)
(* ------------------------------------------------------------------ *)
\* largest number of link elements of a result page
MaxAnchors == 2

MarkerLit == <<"l","i","n","k","e","d","i","n",".","c","o","m","/","i","n","/">>
WwwLit == <<"w","w","w",".">>

\* hrefs that occur on result pages
UrlA == HttpsLit \o MarkerLit \o <<"a">>
UrlATracked == HttpsLit \o MarkerLit \o <<"a","?","t","=","1">>
UrlB == HttpLit \o WwwLit \o MarkerLit \o <<"b","/">>
UrlRedirect == HttpsLit \o <<"x",".","c","o","/","?","u","=">> \o MarkerLit \o <<"c">>
UrlOther == HttpsLit \o <<"x",".","c","o","/","i","n","/","d">>

\* a link element: its href attribute (None when it has none) and whether
\* it lies inside an <article> or inside an element of class result
Anchor(href, article, result) == [href |-> href, article |-> article, result |-> result]

AnchorPool ==
    { Anchor(UrlATracked, TRUE, FALSE),
      Anchor(UrlB, FALSE, TRUE),
      Anchor(UrlB, FALSE, FALSE),
      Anchor(UrlRedirect, FALSE, FALSE),
      Anchor(UrlOther, TRUE, TRUE),
      Anchor(None, TRUE, FALSE) }

\* text nodes of a result page
TextPool ==
    { <<>>,
      <<"s","e","e"," ">> \o UrlA \o <<"/","c","v"," ","n","o","w">> }

AnchorSeqs == UNION { [1..n -> AnchorPool] : n \in 0..MaxAnchors }

Pages == { [anchors |-> a, text |-> t] : a \in AnchorSeqs, t \in TextPool }

\* the markup returned by page.content(): the text followed by the links
AnchorMarkup(a) ==
    IF a.href = None
    THEN <<"<","a",">">>
    ELSE <<"<","a"," ","h","r","e","f","=","\"">> \o a.href \o <<"\"",">">>

RECURSIVE AnchorsMarkup(_)
AnchorsMarkup(as) ==
    IF as = <<>> THEN <<>>
    ELSE AnchorMarkup(Head(as)) \o AnchorsMarkup(Tail(as))

Content(pg) == pg.text \o AnchorsMarkup(pg.anchors)

\* a[href*="linkedin.com/in/"]
HasProfileHref(a) == a.href # None /\ Contains(a.href, MarkerLit)

(* ------------------------------------------------------------------ *)
(* extract_linkedin_from_page                                          *)
(* ------------------------------------------------------------------ *)
\* page.evaluate(...): the hrefs selected by the first selector that
\* selects anything
EvaluateLinks(pg) ==
    LET inArticle == SelectSeq(pg.anchors, LAMBDA a : HasProfileHref(a) /\ a.article)
        inResult == SelectSeq(pg.anchors, LAMBDA a : HasProfileHref(a) /\ a.result)
        anyLink == SelectSeq(pg.anchors, LAMBDA a : HasProfileHref(a))
        chosen == IF Len(inArticle) > 0 THEN inArticle
                  ELSE IF Len(inResult) > 0 THEN inResult
                  ELSE anyLink
    IN [j \in 1..Len(chosen) |-> chosen[j].href]

\* the loop over page.query_selector_all("a"): the first href with the marker
ScanLinks(pg) ==
    LET hits == SelectSeq(pg.anchors, LAMBDA a : HasProfileHref(a))
    IN IF Len(hits) > 0 THEN hits[1].href ELSE None

ContentStop == Whitespace \cup {"\"", "'", "<", ">"}

\* last index of the match of https?://(?:www\.)?linkedin\.com/in/[^\s"'<>]+
\* that starts at p, 0 when the pattern does not match at p
ContentMatchEnd(s, p) ==
    LET a == SchemeEnd(s, p) IN
    IF a = 0 THEN 0
    ELSE LET b == IF StartsWithAt(s, a, WwwLit) THEN a + 4 ELSE a IN
         IF ~StartsWithAt(s, b, MarkerLit) THEN 0
         ELSE LET e == RunEnd(s, b + 16, ContentStop) IN
              IF e < b + 16 THEN 0 ELSE e

\* re.findall(...)[0], None when there is no match
RECURSIVE ContentSearch(_, _)
ContentSearch(s, p) ==
    IF p > Len(s) THEN 0
    ELSE IF ContentMatchEnd(s, p) > 0 THEN p
    ELSE ContentSearch(s, p + 1)

FirstContentMatch(s) ==
    IF ContentSearch(s, 1) > 0
    THEN SubSeq(s, ContentSearch(s, 1), ContentMatchEnd(s, ContentSearch(s, 1)))
    ELSE None

\* what each technique finds on a page when it does not raise
TechniqueHit(pg, t) ==
    CASE t = 1 -> (IF Len(EvaluateLinks(pg)) > 0 THEN EvaluateLinks(pg)[1] ELSE None)
      [] t = 2 -> ScanLinks(pg)
      [] t = 3 -> FirstContentMatch(Content(pg))

\* the cascade from technique t on; raises is the set of techniques whose
\* call raises (caught by the except clause of the technique).  The result
\* is the returned profile and the techniques that were invoked.
RECURSIVE Cascade(_, _, _, _)
Cascade(pg, raises, t, invoked) ==
    IF t > 3 THEN [profile |-> None, invoked |-> invoked]
    ELSE IF t \notin raises /\ TechniqueHit(pg, t) # None
         THEN [profile |-> clean_linkedin_url(TechniqueHit(pg, t)),
               invoked |-> Append(invoked, t)]
         ELSE Cascade(pg, raises, t + 1, Append(invoked, t))

\* mutant: the regex over the markup is tried before the other techniques
ExtractRegexFirst(pg, raises) ==
    IF 3 \notin raises /\ TechniqueHit(pg, 3) # None
    THEN [profile |-> clean_linkedin_url(TechniqueHit(pg, 3)), invoked |-> <<3>>]
    ELSE Cascade(pg, raises, 1, <<>>)

\* mutant: one try block around the three techniques, so that the first
\* technique that raises ends the cascade without a result
ExtractErrorAborts(pg, raises) ==
    LET r == Cascade(pg, raises, 1, <<>>)
        raised == { j \in 1..Len(r.invoked) : r.invoked[j] \in raises }
    IN IF raised = {}
       THEN r
       ELSE LET first == CHOOSE j \in raised : \A l \in raised : j <= l
            IN [profile |-> None, invoked |-> SubSeq(r.invoked, 1, first)]

extract_linkedin_from_page(pg, raises) == Cascade(pg, raises, 1, <<>>)

RaiseSets == SUBSET {1, 2, 3}

\* the cascade on every page of the model, computed once
ExtractTable ==
    [pg \in Pages, raises \in RaiseSets |-> extract_linkedin_from_page(pg, raises)]

\* everything extract_linkedin_from_page returns on some page of the model
ExtractResults == { ExtractTable[pg, raises].profile : pg \in Pages, raises \in RaiseSets }

\* linkedin_profile = clean_linkedin_url(linkedin_profile) in
\* scrape_profile_for_speaker, for every profile the extraction can return,
\* computed once
Recleaned == [u \in ExtractResults \ {None} |-> clean_linkedin_url(u)]

(* ------------------------------------------------------------------ *)
(* Search strategies and the query length policy                       *)
(* ------------------------------------------------------------------ *)
max_query_length == 200

SiteLit == <<"s","i","t","e",":","l","i","n","k","e","d","i","n",".","c","o","m","/","i","n">>

\* ' "value"'
Quoted(v) == <<" ", "\"">> \o v \o <<"\"">>

DescNameTitleCompany ==
    <<"N","a","m","e"," ","+"," ","T","i","t","l","e"," ","+"," ","C","o","m","p","a","n","y">>
DescNameCompany == <<"N","a","m","e"," ","+"," ","C","o","m","p","a","n","y">>
DescNameTitle == <<"N","a","m","e"," ","+"," ","T","i","t","l","e">>
DescNameOnly == <<"N","a","m","e"," ","o","n","l","y">>
CompanyLit == <<"c","o","m","p","a","n","y">>

Strategy(query, description, confidence) ==
    [query |-> query, description |-> description, confidence |-> confidence]

\* mutant: the name + company strategy is generated only with a title
StrategiesCompanyNeedsTitle(speaker) ==
    (IF speaker.title # <<>> /\ speaker.company # <<>>
     THEN << Strategy(SiteLit \o Quoted(speaker.name) \o Quoted(speaker.title)
                        \o Quoted(speaker.company), DescNameTitleCompany, 4),
             Strategy(SiteLit \o Quoted(speaker.name) \o Quoted(speaker.company),
                      DescNameCompany, 3) >>
     ELSE <<>>)
    \o
    (IF speaker.title # <<>>
     THEN << Strategy(SiteLit \o Quoted(speaker.name) \o Quoted(speaker.title),
                      DescNameTitle, 2) >>
     ELSE <<>>)
    \o
    << Strategy(SiteLit \o Quoted(speaker.name), DescNameOnly, 1) >>

\* the list built at the top of scrape_profile_for_speaker
search_strategies(speaker) ==
    (IF speaker.title # <<>> /\ speaker.company # <<>>
     THEN << Strategy(SiteLit \o Quoted(speaker.name) \o Quoted(speaker.title)
                        \o Quoted(speaker.company), DescNameTitleCompany, 4) >>
     ELSE <<>>)
    \o
    (IF speaker.company # <<>>
     THEN << Strategy(SiteLit \o Quoted(speaker.name) \o Quoted(speaker.company),
                      DescNameCompany, 3) >>
     ELSE <<>>)
    \o
    (IF speaker.title # <<>>
     THEN << Strategy(SiteLit \o Quoted(speaker.name) \o Quoted(speaker.title),
                      DescNameTitle, 2) >>
     ELSE <<>>)
    \o
    << Strategy(SiteLit \o Quoted(speaker.name), DescNameOnly, 1) >>

DotsLit == <<".", ".", ".">>

\* mutant: the marker is appended to max_query_length characters
TruncatedOverlong(query) == SubSeq(query, 1, max_query_length) \o DotsLit

\* query[:max_query_length-3] + "..."
Truncated(query) == SubSeq(query, 1, max_query_length - 3) \o DotsLit

\* mutant: a query over the maximum is always truncated, the name + company
\* reconstruction is not tried
FinalQueryTruncatesOnly(strategy, speaker) ==
    IF Len(strategy.query) > max_query_length
    THEN Truncated(strategy.query)
    ELSE strategy.query

\* the query that is executed for a strategy
final_query(strategy, speaker) ==
    IF Len(strategy.query) > max_query_length
    THEN IF Contains(Lower(strategy.description), CompanyLit)
         THEN LET base_query == SiteLit \o Quoted(speaker.name) \o Quoted(speaker.company)
              IN IF Len(base_query) <= max_query_length
                 THEN base_query
                 ELSE Truncated(strategy.query)
         ELSE Truncated(strategy.query)
    ELSE strategy.query

\* urllib.parse.quote_plus on the characters of the queries
QuoteChar(c) ==
    CASE c = " " -> <<"+">>
      [] c = "\"" -> <<"%", "2", "2">>
      [] c = ":" -> <<"%", "3", "A">>
      [] c = "/" -> <<"%", "2", "F">>
      [] OTHER -> <<c>>

\* the encoding of s[a..b], character by character
RECURSIVE QuoteRange(_, _, _)
QuoteRange(s, a, b) ==
    IF a > b THEN <<>>
    ELSE IF a = b THEN QuoteChar(s[a])
    ELSE LET m == (a + b) \div 2
         IN QuoteRange(s, a, m) \o QuoteRange(s, m + 1, b)

quote_plus(s) == QuoteRange(s, 1, Len(s))

DuckLit ==
    HttpsLit \o <<"d","u","c","k","d","u","c","k","g","o",".","c","o","m","/","?","q","=">>
IaWebLit == <<"&","i","a","=","w","e","b">>

search_url(query) == DuckLit \o quote_plus(query) \o IaWebLit

(* ------------------------------------------------------------------ *)
(* Input rosters (the content of INPUT_CSV_FILE)                       *)
(* ------------------------------------------------------------------ *)
Jane == <<"J","a","n","e">>
JanePadded == <<" ","J","a","n","e"," ">>
Bob == <<"B","o","b">>
Blank == <<" ">>
Cto == <<"C","T","O">>
Acme == <<"A","c","m","e">>
LongName == Rep("n", LongLen)
LongTitle == Rep("t", LongLen)
LongCompany == Rep("c", LongLen)
MidCompany == Rep("c", MidLen)
\* a name whose name-only query has exactly the maximum length
ExactName == Rep("e", max_query_length - Len(SiteLit) - 3)

FullHeader == <<"Name", "Job Title", "Company">>

\* a roster file: whether it exists, its header record and its data records
Roster(header, records) == [exists |-> TRUE, header |-> header, records |-> records]

\* a file that exists and cannot be read: open() or the decoding of its
\* first line raises (PermissionError, UnicodeDecodeError)
Unreadable == [exists |-> TRUE, header |-> None, records |-> <<>>]

Rosters ==
    { [exists |-> FALSE, header |-> <<>>, records |-> <<>>],
      Unreadable,
      Roster(<<>>, <<>>),
      Roster(FullHeader, <<>>),
      Roster(FullHeader, << <<Jane, Cto, Acme>> >>),
      Roster(FullHeader, << <<Jane, Cto, Acme>>, <<Bob, <<>>, Acme>> >>),
      Roster(FullHeader, << <<Jane, Cto, <<>> >>, <<Blank, Cto, Acme>>, <<Bob, <<>>, <<>> >> >>),
      Roster(FullHeader, << <<JanePadded, Cto, Acme>>, <<>>, <<Jane, Cto, Acme>> >>),
      Roster(FullHeader, << <<Bob, <<>>, <<>> >>, <<Jane, <<>>, <<>> >>, <<Bob, <<>>, <<>> >> >>),
      Roster(FullHeader, << <<LongName, <<>>, <<>> >>, <<Jane, LongTitle, MidCompany>> >>),
      Roster(FullHeader, << <<Jane, LongTitle, LongCompany>>, <<ExactName, <<>>, <<>> >> >>),
      Roster(<<"Name", "Job Title">>, << <<Jane, Cto>>, <<Bob, Cto, Acme>> >>),
      Roster(<<"Job Title", "Company">>, << <<Cto, Acme>> >>),
      Roster(FullHeader, << <<Jane, Cto, Acme>>, <<Bob>> >>),
      Roster(FullHeader, << <<Blank>>, <<Jane, Cto, Acme>> >>) }

\* csv.DictReader: the value of column col in a record, None (restval) when
\* the record is shorter than the header, default when the header has no
\* such column: row.get(col, default)
RowGet(header, record, col, default) ==
    IF \E j \in 1..Len(header) : header[j] = col
    THEN LET j == CHOOSE c \in 1..Len(header) :
                     header[c] = col /\ \A d \in (c + 1)..Len(header) : header[d] # col
         IN IF j <= Len(record) THEN record[j] ELSE None
    ELSE default

\* calling .strip() on a value of the record raises AttributeError
RowRaises(header, record) ==
    \E col \in {"Name", "Job Title", "Company"} : RowGet(header, record, col, <<>>) = None

Speaker(header, record) ==
    [name |-> Strip(RowGet(header, record, "Name", <<>>)),
     title |-> Strip(RowGet(header, record, "Job Title", <<>>)),
     company |-> Strip(RowGet(header, record, "Company", <<>>))]

\* the records csv.DictReader yields: empty records are skipped
DataRecords(r) == SelectSeq(r.records, LAMBDA rec : rec # <<>>)

\* the speakers list after the filter on the name
LoadedSpeakers(r) ==
    LET recs == DataRecords(r)
        all == [j \in 1..Len(recs) |-> Speaker(r.header, recs[j])]
    IN SelectSeq(all, LAMBDA sp : sp.name # <<>>)

(* ------------------------------------------------------------------ *)
(* Output file (OUTPUT_CSV_FILE)                                       *)
(* ------------------------------------------------------------------ *)
HeaderLine ==
    [kind |-> "header", query_name |-> <<>>, query_title |-> <<>>,
     query_company |-> <<>>, profile_link |-> <<>>, confidence_score |-> 0]

DataLine(speaker, link, confidence) ==
    [kind |-> "data", query_name |-> speaker.name, query_title |-> speaker.title,
     query_company |-> speaker.company, profile_link |-> link,
     confidence_score |-> confidence]

\* a file left by an earlier run
OldOutput == << HeaderLine, DataLine([name |-> Bob, title |-> <<>>, company |-> <<>>], UrlA, 1) >>

DataRows(file) == SelectSeq(file, LAMBDA line : line.kind = "data")

\* re.sub(r'[^\w\s-]', '', name).strip().replace(' ', '_')
SafeName(name) ==
    LET kept == SelectSeq(name, LAMBDA c : c \notin {".", "\"", ":", "/", "?", "#", "+"})
        stripped == Strip(kept)
    IN [j \in 1..Len(stripped) |-> IF stripped[j] = " " THEN "_" ELSE stripped[j]]

(* ------------------------------------------------------------------ *)
(* State                                                               *)
(* ------------------------------------------------------------------ *)
VARIABLES
    roster,              \* content of INPUT_CSV_FILE
    output,              \* lines of OUTPUT_CSV_FILE
    pc,                  \* position of scrape_duckduckgo_for_speakers
    speakers,            \* the loaded and filtered speakers
    scraped_profiles,    \* the set of profile links written so far
    i,                   \* index of the current speaker (from 1)
    k,                   \* index of the current strategy (from 1)
    linkedin_profile,    \* local of scrape_profile_for_speaker
    strategy_confidence, \* local of scrape_profile_for_speaker
    log,                 \* the searches issued for the current speaker
    resolved,            \* how the processing of each speaker ended
    debug_dumps,         \* names of the debug_<name>.html files written
    pass,                \* number of the pass over the speakers
    probe,               \* a page handed to extract_linkedin_from_page
    raw_url              \* a link as it was found, before clean_linkedin_url

vars == << roster, output, pc, speakers, scraped_profiles, i, k, linkedin_profile,
           strategy_confidence, log, resolved, debug_dumps, pass, probe, raw_url >>

BlankPage == [anchors |-> <<>>, text |-> <<>>]

NoProbe ==
    [called |-> FALSE, page |-> BlankPage, raises |-> {},
     result |-> [profile |-> None, invoked |-> <<>>]]

Init ==
    /\ roster \in Rosters
    /\ output \in {<<>>, OldOutput}
    /\ pc = "start"
    /\ speakers = <<>>
    /\ scraped_profiles = {}
    /\ i = 1
    /\ k = 1
    /\ linkedin_profile = None
    /\ strategy_confidence = 0
    /\ log = <<>>
    /\ resolved = <<>>
    /\ debug_dumps = {}
    /\ pass = 1
    /\ probe = NoProbe
    /\ raw_url = None

(* ------------------------------------------------------------------ *)
(* scrape_duckduckgo_for_speakers: loading the roster                  *)
(* ------------------------------------------------------------------ *)
\* mutant: a missing roster is taken for a roster without records
RosterMissingContinues ==
    /\ pc = "start"
    /\ ~roster.exists
    /\ speakers' = <<>>
    /\ pc' = "loaded"
    /\ UNCHANGED << roster, output, scraped_profiles, i, k, linkedin_profile,
                    strategy_confidence, log, resolved, debug_dumps, pass, probe, raw_url >>

\* os.path.exists(INPUT_CSV_FILE) is false: return
RosterMissing ==
    /\ pc = "start"
    /\ ~roster.exists
    /\ pc' = "aborted"
    /\ UNCHANGED << roster, output, speakers, scraped_profiles, i, k, linkedin_profile,
                    strategy_confidence, log, resolved, debug_dumps, pass, probe, raw_url >>

\* open() or the read of the header raises, which nothing catches
RosterUnreadable ==
    /\ pc = "start"
    /\ roster.exists
    /\ roster.header = None
    /\ pc' = "crashed"
    /\ UNCHANGED << roster, output, speakers, scraped_profiles, i, k, linkedin_profile,
                    strategy_confidence, log, resolved, debug_dumps, pass, probe, raw_url >>

\* mutant: the output file is created before the header of the roster is
\* looked at
RosterEmptyTruncates ==
    /\ pc = "start"
    /\ roster.exists
    /\ roster.header = <<>>
    /\ output' = << HeaderLine >>
    /\ pc' = "aborted"
    /\ UNCHANGED << roster, speakers, scraped_profiles, i, k, linkedin_profile,
                    strategy_confidence, log, resolved, debug_dumps, pass, probe, raw_url >>

\* reader.fieldnames is empty: return
RosterEmpty ==
    /\ pc = "start"
    /\ roster.exists
    /\ roster.header = <<>>
    /\ pc' = "aborted"
    /\ UNCHANGED << roster, output, speakers, scraped_profiles, i, k, linkedin_profile,
                    strategy_confidence, log, resolved, debug_dumps, pass, probe, raw_url >>

\* a record without one of the three fields: None.strip() raises
\* AttributeError, which nothing catches
LoadRaises ==
    /\ pc = "start"
    /\ roster.exists
    /\ roster.header \notin {<<>>, None}
    /\ \E j \in 1..Len(DataRecords(roster)) : RowRaises(roster.header, DataRecords(roster)[j])
    /\ pc' = "crashed"
    /\ UNCHANGED << roster, output, speakers, scraped_profiles, i, k, linkedin_profile,
                    strategy_confidence, log, resolved, debug_dumps, pass, probe, raw_url >>

LoadRoster ==
    /\ pc = "start"
    /\ roster.exists
    /\ roster.header \notin {<<>>, None}
    /\ \A j \in 1..Len(DataRecords(roster)) : ~RowRaises(roster.header, DataRecords(roster)[j])
    /\ speakers' = LoadedSpeakers(roster)
    /\ pc' = "loaded"
    /\ UNCHANGED << roster, output, scraped_profiles, i, k, linkedin_profile,
                    strategy_confidence, log, resolved, debug_dumps, pass, probe, raw_url >>

\* mutant: the output file is opened for appending, not truncated
CreateOutputAppends ==
    /\ pc = "loaded"
    /\ output' = Append(output, HeaderLine)
    /\ scraped_profiles' = {}
    /\ i' = 1
    /\ pc' = "loop"
    /\ UNCHANGED << roster, speakers, k, linkedin_profile, strategy_confidence, log,
                    resolved, debug_dumps, pass, probe, raw_url >>

\* the output file is created or truncated and gets its header, the browser
\* is started and the seen-set is created
CreateOutput ==
    /\ pc = "loaded"
    /\ output' = << HeaderLine >>
    /\ scraped_profiles' = {}
    /\ i' = 1
    /\ pc' = "loop"
    /\ UNCHANGED << roster, speakers, k, linkedin_profile, strategy_confidence, log,
                    resolved, debug_dumps, pass, probe, raw_url >>

(* ------------------------------------------------------------------ *)
(* scrape_profile_for_speaker                                          *)
(* ------------------------------------------------------------------ *)
\* the end of one call: the loop of scrape_duckduckgo_for_speakers moves on
Return(status, link) ==
    /\ resolved' = Append(resolved,
                          [speaker |-> i, pass |-> pass, status |-> status, profile |-> link,
                           hit_tier |-> IF log # <<>> /\ log[Len(log)].outcome = "hit"
                                        THEN log[Len(log)].confidence ELSE 0,
                           searches |-> Len(log)])
    /\ i' = i + 1
    /\ k' = 1
    /\ linkedin_profile' = None
    /\ strategy_confidence' = 0
    /\ pc' = "loop"

\* the call for the next speaker: the name check and the strategy list
BeginSpeaker ==
    /\ pc = "loop"
    /\ i <= Len(speakers)
    /\ log' = <<>>
    /\ IF speakers[i].name = <<>>
       THEN /\ Return("skipped", None)
            /\ UNCHANGED << roster, output, speakers, scraped_profiles, debug_dumps,
                            pass, probe, raw_url >>
       ELSE /\ pc' = "strategies"
            /\ k' = 1
            /\ linkedin_profile' = None
            /\ strategy_confidence' = 0
            /\ UNCHANGED << roster, output, speakers, scraped_profiles, i, resolved,
                            debug_dumps, pass, probe, raw_url >>

Search(outcome) ==
    LET strategy == search_strategies(speakers[i])[k]
        query == final_query(strategy, speakers[i])
    IN [confidence |-> strategy.confidence, query |-> query, url |-> search_url(query),
        outcome |-> outcome]

\* `continue`, or the end of the loop body without a profile
NextStrategy ==
    /\ IF k < Len(search_strategies(speakers[i]))
       THEN k' = k + 1 /\ pc' = "strategies"
       ELSE k' = k /\ pc' = "process"
    /\ UNCHANGED << linkedin_profile, strategy_confidence >>

\* mutant: the error of page.goto leaves scrape_profile_for_speaker
NavigationErrorPropagates ==
    /\ pc = "strategies"
    /\ log' = Append(log, Search("error"))
    /\ Return("error", None)
    /\ UNCHANGED << roster, output, speakers, scraped_profiles, debug_dumps,
                    pass, probe, raw_url >>

\* page.goto raises
NavigationError ==
    /\ pc = "strategies"
    /\ log' = Append(log, Search("error"))
    /\ NextStrategy
    /\ UNCHANGED << roster, output, speakers, scraped_profiles, i, resolved,
                    debug_dumps, pass, probe, raw_url >>

\* none of the three result selectors appears within its timeout
NoResults ==
    /\ pc = "strategies"
    /\ log' = Append(log, Search("timeout"))
    /\ NextStrategy
    /\ UNCHANGED << roster, output, speakers, scraped_profiles, i, resolved,
                    debug_dumps, pass, probe, raw_url >>

\* mutant: the position of the strategy is stored as the confidence
ExtractStoresIndex ==
    /\ pc = "strategies"
    /\ \E found_profile \in ExtractResults :
         IF found_profile # None /\ found_profile # <<>>
         THEN /\ log' = Append(log, Search("hit"))
              /\ linkedin_profile' = found_profile
              /\ strategy_confidence' = k
              /\ k' = k
              /\ pc' = "process"
         ELSE /\ log' = Append(log, Search("miss"))
              /\ NextStrategy
    /\ UNCHANGED << roster, output, speakers, scraped_profiles, i, resolved,
                    debug_dumps, pass, probe, raw_url >>

\* mutant: the loop over the strategies goes on after a profile was found
ExtractNoBreak ==
    /\ pc = "strategies"
    /\ \E found_profile \in ExtractResults :
         IF found_profile # None /\ found_profile # <<>>
         THEN /\ log' = Append(log, Search("hit"))
              /\ linkedin_profile' = found_profile
              /\ strategy_confidence' = search_strategies(speakers[i])[k].confidence
              /\ IF k < Len(search_strategies(speakers[i]))
                 THEN k' = k + 1 /\ pc' = "strategies"
                 ELSE k' = k /\ pc' = "process"
         ELSE /\ log' = Append(log, Search("miss"))
              /\ NextStrategy
    /\ UNCHANGED << roster, output, speakers, scraped_profiles, i, resolved,
                    debug_dumps, pass, probe, raw_url >>

\* one of the result selectors appears and the page is handed to
\* extract_linkedin_from_page
Extract ==
    /\ pc = "strategies"
    /\ \E found_profile \in ExtractResults :
         IF found_profile # None /\ found_profile # <<>>
         THEN /\ log' = Append(log, Search("hit"))
              /\ linkedin_profile' = found_profile
              /\ strategy_confidence' = search_strategies(speakers[i])[k].confidence
              /\ k' = k
              /\ pc' = "process"
         ELSE /\ log' = Append(log, Search("miss"))
              /\ NextStrategy
    /\ UNCHANGED << roster, output, speakers, scraped_profiles, i, resolved,
                    debug_dumps, pass, probe, raw_url >>

\* mutant: the row is appended without looking at the seen-set
PersistNoCheck ==
    /\ pc = "process"
    /\ linkedin_profile # None
    /\ LET link == Recleaned[linkedin_profile] IN
         /\ output' = Append(output, DataLine(speakers[i], link, strategy_confidence))
         /\ scraped_profiles' = scraped_profiles \cup {link}
         /\ Return("written", link)
    /\ UNCHANGED << roster, speakers, log, debug_dumps, pass, probe, raw_url >>

\* mutant: the link is not added to the seen-set
PersistNoAdd ==
    /\ pc = "process"
    /\ linkedin_profile # None
    /\ LET link == Recleaned[linkedin_profile] IN
         /\ link \notin scraped_profiles
         /\ output' = Append(output, DataLine(speakers[i], link, strategy_confidence))
         /\ scraped_profiles' = scraped_profiles
         /\ Return("written", link)
    /\ UNCHANGED << roster, speakers, log, debug_dumps, pass, probe, raw_url >>

\* mutant: the output file is opened for writing instead of appending
PersistTruncates ==
    /\ pc = "process"
    /\ linkedin_profile # None
    /\ LET link == Recleaned[linkedin_profile] IN
         /\ link \notin scraped_profiles
         /\ output' = << DataLine(speakers[i], link, strategy_confidence) >>
         /\ scraped_profiles' = scraped_profiles \cup {link}
         /\ Return("written", link)
    /\ UNCHANGED << roster, speakers, log, debug_dumps, pass, probe, raw_url >>

\* a profile that is not in the seen-set: the row is appended and the
\* link is added to the seen-set
Persist ==
    /\ pc = "process"
    /\ linkedin_profile # None
    /\ LET link == Recleaned[linkedin_profile] IN
         /\ link \notin scraped_profiles
         /\ output' = Append(output, DataLine(speakers[i], link, strategy_confidence))
         /\ scraped_profiles' = scraped_profiles \cup {link}
         /\ Return("written", link)
    /\ UNCHANGED << roster, speakers, log, debug_dumps, pass, probe, raw_url >>

\* a profile that is in the seen-set already
Duplicate ==
    /\ pc = "process"
    /\ linkedin_profile # None
    /\ LET link == Recleaned[linkedin_profile] IN
         /\ link \in scraped_profiles
         /\ Return("duplicate", link)
    /\ UNCHANGED << roster, output, speakers, scraped_profiles, log, debug_dumps,
                    pass, probe, raw_url >>

\* no profile: the page is dumped to debug_<name>.html, unless that raises
Unresolved ==
    /\ pc = "process"
    /\ linkedin_profile = None
    /\ \E dumped \in BOOLEAN :
         debug_dumps' = IF dumped
                        THEN debug_dumps \cup {SafeName(speakers[i].name)}
                        ELSE debug_dumps
    /\ Return("unresolved", None)
    /\ UNCHANGED << roster, output, speakers, scraped_profiles, log, pass, probe, raw_url >>

\* the loop is over: the browser is closed
Complete ==
    /\ pc = "loop"
    /\ i > Len(speakers)
    /\ pc' = "done"
    /\ UNCHANGED << roster, output, speakers, scraped_profiles, i, k, linkedin_profile,
                    strategy_confidence, log, resolved, debug_dumps, pass, probe, raw_url >>

Next ==
    \/ RosterMissing
    \/ RosterUnreadable
    \/ RosterEmpty
    \/ LoadRaises
    \/ LoadRoster
    \/ CreateOutput
    \/ BeginSpeaker
    \/ NavigationError
    \/ NoResults
    \/ Extract
    \/ Persist
    \/ Duplicate
    \/ Unresolved
    \/ Complete

\* one run of the script; the output file accepts every append
Spec == Init /\ [][Next]_vars

(* ------------------------------------------------------------------ *)
(* A run in which appending to the output file may fail                *)
(* ------------------------------------------------------------------ *)
\* mutant: the exception is not caught in the loop over the speakers
PersistFailsUncaught ==
    /\ pc = "process"
    /\ linkedin_profile # None
    /\ Recleaned[linkedin_profile] \notin scraped_profiles
    /\ pc' = "crashed"
    /\ UNCHANGED << roster, output, speakers, scraped_profiles, i, k, linkedin_profile,
                    strategy_confidence, log, resolved, debug_dumps, pass, probe, raw_url >>

\* open(output_csv_path, "a") raises: the exception leaves
\* scrape_profile_for_speaker and is caught in the loop over the speakers
PersistFails ==
    /\ pc = "process"
    /\ linkedin_profile # None
    /\ LET link == Recleaned[linkedin_profile] IN
         /\ link \notin scraped_profiles
         /\ Return("error", link)
    /\ UNCHANGED << roster, output, speakers, scraped_profiles, log, debug_dumps,
                    pass, probe, raw_url >>

FaultNext == Next \/ PersistFails

\* the script is one sequential task and every await returns or times
\* out, so a step that is possible is eventually taken
\* the rosters of the runs with a failing output file
FaultRosters ==
    { [exists |-> FALSE, header |-> <<>>, records |-> <<>>],
      Unreadable,
      Roster(<<>>, <<>>),
      Roster(FullHeader, << <<Jane, Cto, Acme>>, <<Bob>> >>),
      Roster(FullHeader, <<>>),
      Roster(FullHeader, << <<Jane, Cto, Acme>>, <<Bob, <<>>, Acme>> >>),
      Roster(FullHeader, << <<Jane, Cto, <<>> >>, <<Blank, Cto, Acme>>, <<Bob, <<>>, <<>> >> >>),
      Roster(FullHeader, << <<Bob, <<>>, <<>> >>, <<Jane, <<>>, <<>> >>, <<Bob, <<>>, <<>> >> >>) }

FaultInit == Init /\ roster \in FaultRosters

FaultSpec == FaultInit /\ [][FaultNext]_vars /\ WF_vars(FaultNext)

(* ------------------------------------------------------------------ *)
(* The speakers resolved again with the same seen-set                  *)
(* ------------------------------------------------------------------ *)
\* scrape_profile_for_speaker is called for every speaker once more, with
\* the scraped_profiles and the output file of the pass before
SecondPass ==
    /\ pc = "done"
    /\ pass = 1
    /\ pass' = pass + 1
    /\ i' = 1
    /\ pc' = "loop"
    /\ UNCHANGED << roster, output, speakers, scraped_profiles, k, linkedin_profile,
                    strategy_confidence, log, resolved, debug_dumps, probe, raw_url >>

TwoPassNext == Next \/ SecondPass

\* the rosters of the two-pass runs
TwoPassRosters ==
    { [exists |-> FALSE, header |-> <<>>, records |-> <<>>],
      Unreadable,
      Roster(<<>>, <<>>),
      Roster(FullHeader, << <<Jane, Cto, Acme>>, <<Bob>> >>),
      Roster(FullHeader, << <<Jane, Cto, Acme>> >>),
      Roster(FullHeader, << <<Jane, Cto, Acme>>, <<Bob, <<>>, Acme>> >>),
      Roster(FullHeader, << <<Bob, <<>>, <<>> >>, <<Jane, <<>>, <<>> >>, <<Bob, <<>>, <<>> >> >>) }

TwoPassInit == Init /\ output = <<>> /\ roster \in TwoPassRosters

TwoPassSpec == TwoPassInit /\ [][TwoPassNext]_vars

(* ------------------------------------------------------------------ *)
(* extract_linkedin_from_page on its own                               *)
(* ------------------------------------------------------------------ *)
\* one call of extract_linkedin_from_page on a page, with a set of
\* techniques whose call raises
Probe ==
    /\ ~probe.called
    /\ \E pg \in Pages, raises \in RaiseSets :
         probe' = [called |-> TRUE, page |-> pg, raises |-> raises,
                   result |-> extract_linkedin_from_page(pg, raises)]
    /\ UNCHANGED << roster, output, pc, speakers, scraped_profiles, i, k,
                    linkedin_profile, strategy_confidence, log, resolved, debug_dumps,
                    pass, raw_url >>

CascadeInit == Init /\ ~roster.exists /\ output = <<>>

CascadeSpec == CascadeInit /\ [][Probe]_vars

(* ------------------------------------------------------------------ *)
(* clean_linkedin_url on its own, applied twice                        *)
(* ------------------------------------------------------------------ *)
\* largest number of pieces of a raw link
MaxPieces == 5

\* the pieces raw links are made of: the schemes, the profile marker, the
\* characters that end the host or the profile name, and a letter
Pieces == { HttpsLit, HttpLit, InLit, <<"/">>, <<"?">>, <<"#">>, <<"a">> }

RECURSIVE Flatten(_)
Flatten(pieces) ==
    IF pieces = <<>> THEN <<>> ELSE Head(pieces) \o Flatten(Tail(pieces))

RawUrls == { Flatten(ps) : ps \in UNION { [1..n -> Pieces] : n \in 0..MaxPieces } }

\* return clean_linkedin_url(linkedin_profile) in extract_linkedin_from_page,
\* whose result becomes the linkedin_profile of scrape_profile_for_speaker
ReturnCleaned ==
    /\ pc = "raw"
    /\ linkedin_profile' = clean_linkedin_url(raw_url)
    /\ pc' = "found"
    /\ UNCHANGED << roster, output, speakers, scraped_profiles, i, k, strategy_confidence,
                    log, resolved, debug_dumps, pass, probe, raw_url >>

\* linkedin_profile = clean_linkedin_url(linkedin_profile) before the look
\* into the seen-set
Reclean ==
    /\ pc = "found"
    /\ linkedin_profile' = clean_linkedin_url(linkedin_profile)
    /\ pc' = "recleaned"
    /\ UNCHANGED << roster, output, speakers, scraped_profiles, i, k, strategy_confidence,
                    log, resolved, debug_dumps, pass, probe, raw_url >>

NormalizeNext == ReturnCleaned \/ Reclean

NormalizeInit ==
    /\ roster = [exists |-> FALSE, header |-> <<>>, records |-> <<>>]
    /\ output = <<>>
    /\ pc = "raw"
    /\ speakers = <<>>
    /\ scraped_profiles = {}
    /\ i = 1
    /\ k = 1
    /\ linkedin_profile = None
    /\ strategy_confidence = 0
    /\ log = <<>>
    /\ resolved = <<>>
    /\ debug_dumps = {}
    /\ pass = 1
    /\ probe = NoProbe
    /\ raw_url \in RawUrls

NormalizeSpec == NormalizeInit /\ [][NormalizeNext]_vars

(* ------------------------------------------------------------------ *)
(* Properties                                                          *)
(* ------------------------------------------------------------------ *)
Rows == DataRows(output)

\* the entries of resolved whose row was appended
Written == SelectSeq(resolved, LAMBDA e : e.status = "written")

Tiers(strategies) == [j \in 1..Len(strategies) |-> strategies[j].confidence]

\* C1: in every state of a run no two data rows of the output file carry
\* the same normalized profile_link
NoDuplicateLinks ==
    \A a, b \in 1..Len(Rows) :
        a # b => clean_linkedin_url(Rows[a].profile_link)
                   # clean_linkedin_url(Rows[b].profile_link)

\* a finished run with two rows and a speaker whose link was in the
\* seen-set already
NoDuplicateLinksWitness ==
    /\ pc = "done"
    /\ Len(Rows) >= 2
    /\ \E j \in 1..Len(resolved) : resolved[j].status = "duplicate"

ConfidenceIsHitTier ==
    /\ pc \in {"loop", "strategies", "process", "done"} =>
         /\ Len(Rows) = Len(Written)
         /\ \A j \in 1..Len(Rows) :
              /\ Rows[j].profile_link = Written[j].profile
              /\ Rows[j].confidence_score = Written[j].hit_tier
              /\ Rows[j].confidence_score \in 1..4
    /\ pc \in {"strategies", "process"} =>
         \A j \in 1..Len(log) :
              /\ log[j].confidence = search_strategies(speakers[i])[j].confidence
              /\ log[j].outcome = "hit" => j = Len(log)

\* the speaker Jane, CTO, Acme with a link only for the name-only query:
\* exactly one row, of confidence 1
ConfidenceIsHitTierWitness ==
    /\ pc = "done"
    /\ speakers = << [name |-> Jane, title |-> Cto, company |-> Acme] >>
    /\ resolved[1].searches = 4
    /\ Len(Rows) = 1
    /\ Rows[1].confidence_score = 1

\* C4: the searches of a speaker are issued in strictly descending tier
\* order, every one for a generated strategy, and none is issued after a
\* search whose extraction returned a link, whether or not the link is
\* in the seen-set
SearchOrder ==
    [][ log' # log =>
          \/ log' = <<>>
          \/ /\ Len(log') = Len(log) + 1
             /\ SubSeq(log', 1, Len(log)) = log
             /\ \E j \in 1..Len(search_strategies(speakers[i])) :
                  search_strategies(speakers[i])[j].confidence = log'[Len(log')].confidence
             /\ \A j \in 1..Len(log) :
                  /\ log[j].outcome # "hit"
                  /\ log[j].confidence > log'[Len(log')].confidence ]_vars

\* a speaker whose link was found before the last strategy and was in the
\* seen-set already
SearchOrderWitness ==
    \E j \in 1..Len(resolved) :
        /\ resolved[j].status = "duplicate"
        /\ resolved[j].searches >= 2
        /\ resolved[j].searches < Len(search_strategies(speakers[resolved[j].speaker]))

\* the tiers the claim lists for a speaker
ExpectedTiers(speaker) ==
    SelectSeq(<<4, 3, 2, 1>>,
              LAMBDA t : CASE t = 4 -> speaker.title # <<>> /\ speaker.company # <<>>
                           [] t = 3 -> speaker.company # <<>>
                           [] t = 2 -> speaker.title # <<>>
                           [] t = 1 -> TRUE)

\* C5: for every speaker with a name the generated strategies are tier 4
\* iff title and company are given, tier 3 iff the company is given, tier 2
\* iff the title is given and tier 1 always, in this order: never empty and
\* strictly descending; a speaker that ends without a link was searched
\* with exactly these tiers
StrategyTiers ==
    /\ \A j \in 1..Len(speakers) :
         speakers[j].name # <<>> =>
            LET tiers == Tiers(search_strategies(speakers[j])) IN
            /\ tiers = ExpectedTiers(speakers[j])
            /\ Len(tiers) >= 1
            /\ \A x, y \in 1..Len(tiers) : x < y => tiers[x] > tiers[y]
    /\ pc = "process" /\ linkedin_profile = None =>
         Tiers(log) = ExpectedTiers(speakers[i])

\* a speaker with a company and no title, searched with tiers 3 and 1
StrategyTiersWitness ==
    /\ pc = "process"
    /\ linkedin_profile = None
    /\ speakers[i].title = <<>>
    /\ speakers[i].company # <<>>
    /\ Tiers(log) = <<3, 1>>

\* C6: the query of every search that is issued has at most
\* max_query_length characters
QueryWithinMax ==
    \A j \in 1..Len(log) :
        /\ Len(log[j].query) <= max_query_length
        /\ log[j].url = search_url(log[j].query)

\* a search whose strategy query was longer than the maximum
QueryWithinMaxWitness ==
    /\ pc \in {"strategies", "process"}
    /\ \E j \in 1..Len(log) :
         /\ Len(search_strategies(speakers[i])[j].query) > max_query_length
         /\ Len(log[j].query) = max_query_length

\* the techniques that find a link on the probed page
Finders ==
    { t \in 1..3 : t \notin probe.raises /\ TechniqueHit(probe.page, t) # None }

\* C7: the cascade returns the (normalized) hit of the lowest-numbered
\* technique that finds one and invokes no technique after it; without a
\* hit it returns nothing after all three techniques
CascadeFirstHit ==
    probe.called =>
        IF Finders = {}
        THEN /\ probe.result.profile = None
             /\ probe.result.invoked = <<1, 2, 3>>
        ELSE LET m == CHOOSE t \in Finders : \A u \in Finders : t <= u IN
             /\ probe.result.profile = clean_linkedin_url(TechniqueHit(probe.page, m))
             /\ probe.result.invoked = [j \in 1..m |-> j]

\* a page on which technique 1 matches one profile and technique 3 another
CascadeFirstHitWitness ==
    /\ probe.called
    /\ probe.raises = {}
    /\ TechniqueHit(probe.page, 1) # None
    /\ TechniqueHit(probe.page, 3) # None
    /\ clean_linkedin_url(TechniqueHit(probe.page, 1))
         # clean_linkedin_url(TechniqueHit(probe.page, 3))
    /\ probe.result.profile = clean_linkedin_url(TechniqueHit(probe.page, 1))
    /\ probe.result.invoked = <<1>>

\* C8: when the speakers are resolved twice with one seen-set, the
\* second pass appends no row for a link recorded in the first pass, and
\* no link has two rows
SecondPassAddsNoDuplicate ==
    \A b \in 1..Len(resolved) :
        resolved[b].status = "written" =>
            /\ Len(SelectSeq(Rows, LAMBDA r : r.profile_link = resolved[b].profile)) = 1
            /\ \A a \in 1..Len(resolved) :
                 /\ resolved[a].pass < resolved[b].pass
                 /\ resolved[a].status = "written"
                 => resolved[a].profile # resolved[b].profile

\* the end of a second pass that found a recorded link again and recorded
\* a new one
SecondPassAddsNoDuplicateWitness ==
    /\ pc = "done"
    /\ pass = 2
    /\ \E a, b, c \in 1..Len(resolved) :
         /\ resolved[a].pass = 1 /\ resolved[a].status = "written"
         /\ resolved[b].pass = 2 /\ resolved[b].status = "duplicate"
         /\ resolved[b].profile = resolved[a].profile
         /\ resolved[c].pass = 2 /\ resolved[c].status = "written"

\* the records of the roster whose name is empty or blank
BlankNameRecords ==
    { j \in 1..Len(DataRecords(roster)) :
        LET name == RowGet(roster.header, DataRecords(roster)[j], "Name", <<>>)
        IN name # None /\ Strip(name) = <<>> }

\* C9: a record whose name is empty or blank gives no speaker (no
\* strategy, no search, no row, no change of the seen-set) and the run
\* goes on with the records after it: it never ends on such a record
BlankNameRecordsSkipped ==
    /\ \A j \in 1..Len(speakers) : speakers[j].name # <<>>
    /\ pc = "crashed" =>
         \A j \in BlankNameRecords : ~RowRaises(roster.header, DataRecords(roster)[j])

\* C10: once the roster is loaded, the run reaches its end and every
\* loaded speaker has been processed, whatever raised on the way
EverySpeakerProcessed ==
    (pc = "loaded") ~> (pc = "done" /\ Len(resolved) = Len(speakers))

\* a finished run in which the append for a speaker raised and a later
\* speaker was processed
EverySpeakerProcessedWitness ==
    /\ pc = "done"
    /\ \E a, b \in 1..Len(resolved) :
         /\ a < b
         /\ resolved[a].status = "error"
         /\ resolved[b].status = "written"

\* the entries of resolved that ended with a link no earlier entry ended with
Novel(res) ==
    { b \in 1..Len(res) :
        /\ res[b].profile # None
        /\ \A a \in 1..(b - 1) : res[a].profile # res[b].profile }

NovelSeq(res) == SelectSeq([b \in 1..Len(res) |-> b], LAMBDA b : b \in Novel(res))

FieldOrEmpty(header, record, col) ==
    LET v == RowGet(header, record, col, <<>>)
    IN IF v = None THEN <<>> ELSE Strip(v)

\* the records of the roster that have a name and lack a title or company
NamedShortRecords ==
    { j \in 1..Len(DataRecords(roster)) :
        /\ FieldOrEmpty(roster.header, DataRecords(roster)[j], "Name") # <<>>
        /\ RowRaises(roster.header, DataRecords(roster)[j]) }

\* C13: a record with a name whose title or company is absent (no such
\* column, or fewer fields than the header) is loaded as a speaker with
\* that field empty, and loading it does not end the run
AbsentFieldsLoadEmpty ==
    /\ pc = "crashed" => NamedShortRecords = {}
    /\ pc \in {"loaded", "loop", "strategies", "process", "done"} =>
         speakers = SelectSeq([j \in 1..Len(DataRecords(roster)) |->
                                 [name |-> FieldOrEmpty(roster.header, DataRecords(roster)[j], "Name"),
                                  title |-> FieldOrEmpty(roster.header, DataRecords(roster)[j], "Job Title"),
                                  company |-> FieldOrEmpty(roster.header, DataRecords(roster)[j], "Company")]],
                              LAMBDA sp : sp.name # <<>>)

\* C14: when the roster is missing or cannot be read (no header included),
\* no step of the run creates the output file and starts the browser, none
\* issues a search, none processes a speaker and none writes a data row
AbortBeforeAnything ==
    [][ (~roster.exists \/ roster.header \in {<<>>, None}) =>
          ( /\ pc' \in {"start", "aborted", "crashed"}
            /\ speakers' = <<>>
            /\ log' = <<>>
            /\ resolved' = <<>>
            /\ DataRows(output') = DataRows(output) )
      ]_vars

\* the run has ended on a roster that cannot be read
AbortBeforeAnythingWitness ==
    /\ pc = "crashed"
    /\ roster = Unreadable
    /\ resolved = <<>>

\* C20: when the roster is missing or has no header, every step of the run
\* leaves the output file as it was before the run
AbortKeepsOutput ==
    [][ (~roster.exists \/ roster.header = <<>>) => output' = output ]_vars

\* the run has ended on a roster without header and the file of the
\* earlier run is there
AbortKeepsOutputWitness ==
    /\ pc = "aborted"
    /\ roster.exists
    /\ roster.header = <<>>
    /\ output = OldOutput

SoftOutcomes == {"error", "timeout"}

\* C15: a search whose navigation raises or whose result selectors all
\* time out extracts nothing and stays inside the processing of the
\* speaker: the strategy after it is searched next, and after the last
\* strategy the speaker ends unresolved and no row is written
SoftFailureAdvances ==
    [][ /\ (Len(log') = Len(log) + 1 /\ log'[Len(log')].outcome \in SoftOutcomes) =>
            ( /\ log'[Len(log')].confidence = search_strategies(speakers[i])[k].confidence
              /\ linkedin_profile' = None
              /\ strategy_confidence' = 0
              /\ i' = i
              /\ resolved' = resolved
              /\ output' = output
              /\ IF k < Len(search_strategies(speakers[i]))
                 THEN pc' = "strategies" /\ k' = k + 1
                 ELSE pc' = "process" )
        /\ (pc = "process" /\ log # <<>> /\ log[Len(log)].outcome \in SoftOutcomes) =>
            ( /\ Len(log) = Len(search_strategies(speakers[i]))
              /\ Len(resolved') = Len(resolved) + 1
              /\ resolved'[Len(resolved')].status = "unresolved"
              /\ resolved'[Len(resolved')].speaker = i
              /\ output' = output
              /\ scraped_profiles' = scraped_profiles
              /\ pc' = "loop" )
      ]_vars

\* a speaker ended unresolved after a navigation error, a search in between
\* and a timeout of the last strategy, and the run went on
SoftFailureAdvancesWitness ==
    /\ pc = "process"
    /\ i = 2
    /\ resolved[1].status = "unresolved"
    /\ Len(log) >= 2
    /\ log[1].outcome = "error"
    /\ log[Len(log)].outcome = "timeout"

\* the techniques the probed call invoked
Invoked == { probe.result.invoked[j] : j \in 1..Len(probe.result.invoked) }

\* C16: in a call of the cascade in which techniques raise, the technique
\* after a raising one is invoked, the result never comes from a raising
\* technique, the hit of a technique that does not raise is returned when
\* there is one, and otherwise all three techniques are invoked and the
\* call returns no result
CascadeErrorsFallThrough ==
    (probe.called /\ probe.raises # {}) =>
        /\ \A t \in probe.raises : (t \in Invoked /\ t < 3) => (t + 1) \in Invoked
        /\ IF \E t \in (1..3) \ probe.raises : TechniqueHit(probe.page, t) # None
           THEN LET last == probe.result.invoked[Len(probe.result.invoked)] IN
                /\ last \notin probe.raises
                /\ probe.result.profile # None
                /\ probe.result.profile = clean_linkedin_url(TechniqueHit(probe.page, last))
           ELSE /\ probe.result.profile = None
                /\ probe.result.invoked = <<1, 2, 3>>

\* technique 1 raises on a page where it would have found one profile and
\* technique 2 finds another, which is returned
CascadeErrorsFallThroughWitness ==
    /\ probe.called
    /\ probe.raises = {1}
    /\ TechniqueHit(probe.page, 1) # None
    /\ TechniqueHit(probe.page, 2) # None
    /\ clean_linkedin_url(TechniqueHit(probe.page, 1))
         # clean_linkedin_url(TechniqueHit(probe.page, 2))
    /\ probe.result.profile = clean_linkedin_url(TechniqueHit(probe.page, 2))
    /\ probe.result.invoked = <<1, 2>>

\* the name + company query of the claim
Reconstruction(speaker) == SiteLit \o Quoted(speaker.name) \o Quoted(speaker.company)

\* C17: the query executed for a strategy is the strategy's query when
\* that has at most max_query_length characters; otherwise it is the
\* name + company reconstruction when the strategy has a company (tiers 4
\* and 3) and the reconstruction has at most max_query_length characters,
\* and in every other case it has exactly max_query_length characters, the
\* last three of which are the marker "..."
ClampedQuery ==
    pc \in {"strategies", "process"} =>
        \A j \in 1..Len(log) :
            LET strategy == search_strategies(speakers[i])[j]
                query == log[j].query
            IN IF Len(strategy.query) <= max_query_length
               THEN query = strategy.query
               ELSE IF strategy.confidence \in {3, 4}
                       /\ Len(Reconstruction(speakers[i])) <= max_query_length
                    THEN query = Reconstruction(speakers[i])
                    ELSE /\ Len(query) = max_query_length
                         /\ SubSeq(query, Len(query) - 2, Len(query)) = <<".", ".", ".">>

\* a speaker whose tier 4 query was replaced by the reconstruction and
\* whose tier 2 query was truncated
ClampedQueryWitness ==
    /\ pc \in {"strategies", "process"}
    /\ Len(log) >= 3
    /\ log[1].confidence = 4
    /\ Len(search_strategies(speakers[i])[1].query) > max_query_length
    /\ log[1].query = Reconstruction(speakers[i])
    /\ log[3].confidence = 2
    /\ Len(log[3].query) = max_query_length
    /\ log[3].query # search_strategies(speakers[i])[3].query

\* C18: from the creation of the seen-set on and outside the append of a
\* row, scraped_profiles is the set of the profile_link values of the
\* data rows of the output file; no step removes a link from it, and a
\* step that adds a link appends the row with that link
SeenSetIsWrittenLinks ==
    [][ (pc' \in {"loop", "strategies", "process", "done"}) =>
          ( /\ scraped_profiles' = { DataRows(output')[j].profile_link :
                                       j \in 1..Len(DataRows(output')) }
            /\ (pc # "loaded") => scraped_profiles \subseteq scraped_profiles'
            /\ \A link \in scraped_profiles' \ scraped_profiles :
                 /\ Len(output') = Len(output) + 1
                 /\ SubSeq(output', 1, Len(output)) = output
                 /\ output'[Len(output')].kind = "data"
                 /\ output'[Len(output')].profile_link = link )
      ]_vars

\* the seen-set holds two links after a speaker whose link was in it
SeenSetIsWrittenLinksWitness ==
    /\ pc = "loop"
    /\ Cardinality(scraped_profiles) = 2
    /\ Len(resolved) = 3
    /\ resolved[2].status = "duplicate"

\* C19: normalizing a normalized link gives the same link: the second
\* clean_linkedin_url, applied to what the cascade returned, leaves it as
\* it is, for every raw link and for everything the cascade returns on
\* the pages of the model
NormalizationIdempotent ==
    /\ pc = "recleaned" => linkedin_profile = clean_linkedin_url(raw_url)
    /\ \A u \in ExtractResults \ {None} : Recleaned[u] = u

\* a raw link with a path behind the profile name: the first
\* normalization cut it and the second was applied
NormalizationIdempotentWitness ==
    /\ pc = "recleaned"
    /\ raw_url = HttpsLit \o <<"a">> \o InLit \o <<"a", "/">>
    /\ linkedin_profile = HttpsLit \o <<"a">> \o InLit \o <<"a">>

====
